---- MODULE Spec2Model ----
(***************************************************************************)
(* A model of the Solidity grammar of src/grammar.js.                      *)
(*                                                                         *)
(* The grammar is written in the tree-sitter DSL.  Each rule of the file   *)
(* is translated into its set of productions (a choice is a union, an      *)
(* optional adds the empty alternative, a repeat is an auxiliary           *)
(* left-recursive rule), each production carrying the precedence and the   *)
(* associativity the rule gives it.  The parser is the LR(1) parser those  *)
(* productions define: a production is reduced on a lookahead only when    *)
(* the lookahead can follow it in the context on the stack, and a          *)
(* shift/reduce or reduce/reduce conflict is settled by the precedence     *)
(* and associativity annotations.  Conflicts the annotations leave open    *)
(* are explored on every side (the generalized parse of the declared       *)
(* conflicts), so the state holds a set of stacks.                         *)
(***************************************************************************)
EXTENDS Integers, Sequences, FiniteSets, TLC

VARIABLES input, goal, heads, result, pc

vars == <<input, goal, heads, result, pc>>

(***************************************************************************)
(* The rule combinators.  A rule body denotes a set of symbol sequences.   *)
(***************************************************************************)
S(x) == {<<x>>}

cat(A, B) == {a \o b : a \in A, b \in B}

RECURSIVE seq(_)
seq(bodies) ==
    IF bodies = <<>> THEN {<<>>} ELSE cat(Head(bodies), seq(Tail(bodies)))

choice(bodies) == UNION bodies

optional(A) == A \cup {<<>>}

rule(lhs, precedence, assoc, body) ==
    {[lhs |-> lhs, rhs |-> r, prec |-> precedence, assoc |-> assoc] : r \in body}

\* repeat1(x) under the auxiliary name aux: aux -> x | aux x
repeat1(aux, body) ==
    rule(aux, 0, "none", body) \cup rule(aux, 0, "none", cat(S(aux), body))

commaSep1(r, aux) == seq(<<r, optional(S(aux)), optional(S(","))>>)

commaSep(r, aux) == optional(commaSep1(r, aux))

commaSepAux(r, aux) == repeat1(aux, seq(<<S(","), r>>))

PREC ==
    "COMMENT" :> 1 @@ "STRING" :> 2 @@ "COMMA" :> -1 @@ "OBJECT" :> -1
    @@ "USER_TYPE" :> 1 @@ "DECLARATION" :> 1 @@ "ASSIGN" :> 0
    @@ "TERNARY" :> 1 @@ "OR" :> 2 @@ "AND" :> 3 @@ "REL" :> 4 @@ "PLUS" :> 5
    @@ "TIMES" :> 6 @@ "EXP" :> 7 @@ "TYPEOF" :> 8 @@ "DELETE" :> 8
    @@ "VOID" :> 8 @@ "NOT" :> 9 @@ "NEG" :> 10 @@ "INC" :> 11 @@ "CALL" :> 12
    @@ "NEW" :> 13 @@ "MEMBER" :> 14

E == S("_expression")

(***************************************************************************)
(* Expressions                                                             *)
(***************************************************************************)
_expression ==
    {"binary_expression", "unary_expression", "update_expression",
     "call_expresion", "payable_conversion_expression", "meta_type_expression",
     "primary_expression", "struct_expression", "ternary_expression",
     "type_cast_expression"}

primary_expression ==
    rule("primary_expression", 0, "none",
         choice({S("parenthesized_expression"), S("member_expression"),
                 S("array_access"), S("slice_access"), S("_primitive_type"),
                 S("assignment_expression"),
                 S("augmented_assignment_expression"),
                 S("_user_defined_type"), S("tuple_expression"),
                 S("inline_array_expression"), S("identifier"), S("literal"),
                 S("new_expression")}))

type_cast_expression ==
    rule("type_cast_expression", 0, "left",
         seq(<<S("_primitive_type"), S("("), E, S(")")>>))

ternary_expression ==
    rule("ternary_expression", 0, "left", seq(<<E, S("?"), E, S(":"), E>>))

new_expression ==
    rule("new_expression", 0, "left", seq(<<S("new"), S("type_name")>>))

tuple_expression ==
    rule("tuple_expression", 1, "none",
         seq(<<S("("), commaSep(E, "tuple_expression_repeat1"), S(")")>>))
    \cup commaSepAux(E, "tuple_expression_repeat1")

inline_array_expression ==
    rule("inline_array_expression", 0, "none",
         seq(<<S("["), commaSep(E, "inline_array_expression_repeat1"), S("]")>>))
    \cup commaSepAux(E, "inline_array_expression_repeat1")

\* the shift operators with `+` and `-`
BinaryOperators_shift_additive ==
    << <<"&&", PREC.AND>>, <<"||", PREC.OR>>, <<">>", PREC.PLUS>>,
       <<">>>", PREC.PLUS>>, <<"<<", PREC.PLUS>>, <<"&", PREC.AND>>,
       <<"^", PREC.OR>>, <<"|", PREC.OR>>, <<"+", PREC.PLUS>>,
       <<"-", PREC.PLUS>>, <<"*", PREC.TIMES>>, <<"/", PREC.TIMES>>,
       <<"%", PREC.TIMES>>, <<"**", PREC.EXP>>, <<"<", PREC.REL>>,
       <<"<=", PREC.REL>>, <<"==", PREC.REL>>, <<"!=", PREC.REL>>,
       <<"!==", PREC.REL>>, <<">=", PREC.REL>>, <<">", PREC.REL>> >>

BinaryOperators ==
    << <<"&&", PREC.AND>>, <<"||", PREC.OR>>, <<">>", PREC.TIMES>>,
       <<">>>", PREC.TIMES>>, <<"<<", PREC.TIMES>>, <<"&", PREC.AND>>,
       <<"^", PREC.OR>>, <<"|", PREC.OR>>, <<"+", PREC.PLUS>>,
       <<"-", PREC.PLUS>>, <<"*", PREC.TIMES>>, <<"/", PREC.TIMES>>,
       <<"%", PREC.TIMES>>, <<"**", PREC.EXP>>, <<"<", PREC.REL>>,
       <<"<=", PREC.REL>>, <<"==", PREC.REL>>, <<"!=", PREC.REL>>,
       <<"!==", PREC.REL>>, <<">=", PREC.REL>>, <<">", PREC.REL>> >>

BinaryAssoc(operator) == "left"

\* every operator at one precedence
binary_expression_flat ==
    UNION {rule("binary_expression", PREC.PLUS,
                BinaryAssoc(BinaryOperators[i][1]),
                seq(<<E, S(BinaryOperators[i][1]), E>>))
           : i \in DOMAIN BinaryOperators}

binary_expression ==
    UNION {rule("binary_expression", BinaryOperators[i][2],
                BinaryAssoc(BinaryOperators[i][1]),
                seq(<<E, S(BinaryOperators[i][1]), E>>))
           : i \in DOMAIN BinaryOperators}

UnaryOperators ==
    << <<"!", PREC.NOT>>, <<"~", PREC.NOT>>, <<"-", PREC.NEG>>,
       <<"+", PREC.NEG>>, <<"delete", PREC.DELETE>> >>

unary_expression ==
    UNION {rule("unary_expression", UnaryOperators[i][2], "left",
                seq(<<S(UnaryOperators[i][1]), E>>))
           : i \in DOMAIN UnaryOperators}

update_expression ==
    rule("update_expression", PREC.INC, "left",
         choice({seq(<<E, choice({S("++"), S("--")})>>),
                 seq(<<choice({S("++"), S("--")}), E>>)}))

member_expression ==
    rule("member_expression", PREC.MEMBER, "none",
         seq(<<choice({E, S("identifier")}), S("."), S("identifier")>>))

array_access ==
    rule("array_access", 14, "right", seq(<<E, S("["), E, S("]")>>))

slice_access ==
    rule("slice_access", PREC.MEMBER, "none",
         seq(<<E, S("["), E, S(":"), E, S("]")>>))

struct_expression ==
    rule("struct_expression", 0, "none",
         seq(<<E, S("{"),
               commaSep(seq(<<S("identifier"), S(":"), E>>),
                        "struct_expression_repeat1"),
               S("}")>>))
    \cup commaSepAux(seq(<<S("identifier"), S(":"), E>>),
                     "struct_expression_repeat1")

_lhs_expression ==
    {"member_expression", "tuple_expression", "array_access", "identifier"}

parenthesized_expression ==
    rule("parenthesized_expression", 2, "none", seq(<<S("("), E, S(")")>>))

assignment_expression ==
    rule("assignment_expression", PREC.ASSIGN, "right",
         seq(<<choice({S("parenthesized_expression"), S("_lhs_expression")}),
               S("="), E>>))

AugmentedOperators ==
    {"+=", "-=", "*=", "/=", "%=", "^=", "&=", "|=", ">>=", ">>>=", "<<="}

augmented_assignment_expression ==
    rule("augmented_assignment_expression", PREC.ASSIGN, "right",
         seq(<<S("_lhs_expression"), choice({S(o) : o \in AugmentedOperators}),
               E>>))

\* a primitive type as a call target
call_expresion_of_type ==
    rule("call_expresion", 0, "none",
         seq(<<choice({S("identifier"), S("_primitive_type")}),
               S("_call_arguments")>>))

call_expresion ==
    rule("call_expresion", 0, "none",
         seq(<<S("identifier"), S("_call_arguments")>>))

_call_arguments ==
    rule("_call_arguments", 0, "none",
         seq(<<S("("),
               commaSep(choice({E, seq(<<S("{"),
                                         commaSep(seq(<<S("identifier"), S(":"), E>>),
                                                  "_call_arguments_repeat1"),
                                         S("}")>>)}),
                        "_call_arguments_repeat2"),
               S(")")>>))
    \cup commaSepAux(seq(<<S("identifier"), S(":"), E>>),
                     "_call_arguments_repeat1")
    \cup commaSepAux(choice({E, seq(<<S("{"),
                                      commaSep(seq(<<S("identifier"), S(":"), E>>),
                                               "_call_arguments_repeat1"),
                                      S("}")>>)}),
                     "_call_arguments_repeat2")

payable_conversion_expression ==
    rule("payable_conversion_expression", 0, "none",
         seq(<<S("payable"), S("_call_arguments")>>))

meta_type_expression ==
    rule("meta_type_expression", 0, "none",
         seq(<<S("type"), S("("), S("type_name"), S(")")>>))

(***************************************************************************)
(* Type names                                                              *)
(***************************************************************************)
type_name ==
    rule("type_name", 0, "none",
         choice({S("_primitive_type"), S("_user_defined_type"), S("_mapping"),
                 S("_array_type"), S("_function_type")}))

_array_type ==
    rule("_array_type", 0, "none",
         seq(<<S("type_name"), S("["), optional(E), S("]")>>))

_storage_location == {"memory", "storage", "calldata"}

_parameter ==
    rule("_parameter", 0, "none",
         seq(<<S("type_name"), optional(S("_storage_location")),
               optional(S("identifier"))>>))

_parameter_list ==
    rule("_parameter_list", 0, "none",
         seq(<<S("("), commaSep(S("_parameter"), "_parameter_list_repeat1"),
               S(")")>>))
    \cup commaSepAux(S("_parameter"), "_parameter_list_repeat1")

_function_type ==
    rule("_function_type", 0, "right",
         seq(<<S("function"), S("_parameter_list"),
               optional(S("_return_parameters"))>>))

_return_parameters ==
    rule("_return_parameters", 0, "none",
         seq(<<S("("),
               commaSep1(S("_nameless_parameter"), "_return_parameters_repeat1"),
               S(")")>>))
    \cup commaSepAux(S("_nameless_parameter"), "_return_parameters_repeat1")

_nameless_parameter ==
    rule("_nameless_parameter", 0, "none",
         seq(<<S("type_name"), optional(S("_storage_location"))>>))

_user_defined_type ==
    rule("_user_defined_type", PREC.USER_TYPE, "left",
         seq(<<S("identifier"), optional(S("_user_defined_type_repeat1"))>>))
    \cup repeat1("_user_defined_type_repeat1", seq(<<S("."), S("identifier")>>))

_mapping_key == {"_primitive_type", "_user_defined_type"}

_mapping ==
    rule("_mapping", 0, "none",
         seq(<<S("mapping"), S("("), S("_mapping_key"), S("=>"), S("type_name"),
               S(")")>>))

IntWords == {"int"} \cup {"int" \o ToString(8 * i) : i \in 1..32}

_int == rule("_int", 0, "none", choice({S(w) : w \in IntWords}))

UintWords == {"uint"} \cup {"uint" \o ToString(8 * i) : i \in 1..32}

_uint == rule("_uint", 0, "none", choice({S(w) : w \in UintWords}))

BytesWords == {"byte", "bytes"} \cup {"bytes" \o ToString(i) : i \in 1..32}

_bytes == rule("_bytes", 0, "none", choice({S(w) : w \in BytesWords}))

_fixed == rule("_fixed", 0, "none", choice({S("fixed"), S("/fixedMxN/")}))

_ufixed == rule("_ufixed", 0, "none", choice({S("ufixed"), S("/ufixedMxN/")}))

_primitive_type ==
    rule("_primitive_type", 0, "left",
         choice({seq(<<S("address"), optional(S("payable"))>>), S("bool"),
                 S("string"), S("var"), S("_int"), S("_uint"), S("_bytes"),
                 S("_fixed"), S("_ufixed")}))

(***************************************************************************)
(* Literals                                                                *)
(***************************************************************************)
literal ==
    rule("literal", 0, "none",
         choice({S("string_literal"), S("number_literal"), S("boolean_literal"),
                 S("hex_string_literal"), S("unicode_string_literal")}))

number_literal ==
    rule("number_literal", 0, "none",
         seq(<<choice({S("decimal_number"), S("hex_number")}),
               optional(S("number_unit"))>>))

decimal_number ==
    rule("decimal_number", 0, "none",
         seq(<<S("/[0-9]+(.[0-9]+)?/"), optional(S("/[eE](-)?d+/"))>>))

\* optionalDashSeparation(x) under the auxiliary name aux
optionalDashSeparation(r, aux) == seq(<<r, optional(S(aux))>>)

optionalDashSeparationAux(r, aux) ==
    repeat1(aux, seq(<<optional(S("_")), r>>))

hex_number ==
    rule("hex_number", 0, "none",
         seq(<<S("0x"),
               optional(optionalDashSeparation(S("_hex_digit"),
                                               "hex_number_repeat1"))>>))
    \cup optionalDashSeparationAux(S("_hex_digit"), "hex_number_repeat1")

NumberUnits ==
    {"wei", "szabo", "finney", "gwei", "ether", "seconds", "minutes", "hours",
     "days", "weeks", "years"}

number_unit ==
    rule("number_unit", 0, "none", choice({S(w) : w \in NumberUnits}))

boolean_literal ==
    rule("boolean_literal", 0, "none", choice({S("true"), S("false")}))

(***************************************************************************)
(* Statements                                                              *)
(***************************************************************************)
_statement ==
    {"block_statement", "expression_statement",
     "variable_declaration_statement", "if_statement", "for_statement",
     "while_statement", "do_while_statement", "continue_statement",
     "break_statement", "try_statement", "return_statement", "emit_statement"}

block_statement ==
    rule("block_statement", 0, "none",
         seq(<<S("{"), optional(S("block_statement_repeat1")), S("}")>>))
    \cup repeat1("block_statement_repeat1", S("_statement"))

\* the initializer optional after a tuple as well
variable_declaration_statement_optional ==
    rule("variable_declaration_statement", 0, "none",
         seq(<<choice({S("variable_declaration"),
                       S("variable_declaration_tuple")}),
               optional(seq(<<S("="), E>>)), S(";")>>))

variable_declaration_statement ==
    rule("variable_declaration_statement", 0, "none",
         seq(<<choice({seq(<<S("variable_declaration"),
                             optional(seq(<<S("="), E>>))>>),
                       seq(<<S("variable_declaration_tuple"), S("="), E>>)}),
               S(";")>>))

variable_declaration ==
    rule("variable_declaration", 0, "none",
         seq(<<S("type_name"),
               optional(choice({S("memory"), S("storage"), S("calldata")})),
               S("identifier")>>))

variable_declaration_tuple ==
    rule("variable_declaration_tuple", 0, "none",
         seq(<<S("("),
               commaSep(S("variable_declaration"),
                        "variable_declaration_tuple_repeat1"),
               S(")")>>))
    \cup commaSepAux(S("variable_declaration"),
                     "variable_declaration_tuple_repeat1")

expression_statement ==
    rule("expression_statement", 0, "none", seq(<<E, S(";")>>))

if_statement ==
    rule("if_statement", 0, "left",
         seq(<<S("if"), S("("), E, S(")"), S("_statement"),
               optional(seq(<<S("else"), S("_statement")>>))>>))

for_statement ==
    rule("for_statement", 0, "none",
         seq(<<S("for"), S("("),
               choice({S("variable_declaration_statement"),
                       S("expression_statement"), S(";")}),
               choice({S("expression_statement"), S(";")}),
               optional(E), S(")"), S("_statement")>>))

while_statement ==
    rule("while_statement", 0, "none",
         seq(<<S("while"), S("("), E, S(")"), S("_statement")>>))

do_while_statement ==
    rule("do_while_statement", 0, "none",
         seq(<<S("do"), S("_statement"), S("while"), S("("), E, S(")")>>))

continue_statement ==
    rule("continue_statement", 0, "none", seq(<<S("continue"), S(";")>>))

break_statement ==
    rule("break_statement", 0, "none", seq(<<S("break"), S(";")>>))

\* zero or more catch clauses
try_statement_repeat ==
    rule("try_statement", 0, "none",
         seq(<<S("try"), E,
               optional(seq(<<S("returns"), S("_parameter_list")>>)),
               S("block_statement"), optional(S("try_statement_repeat1"))>>))
    \cup repeat1("try_statement_repeat1", S("catch_clause"))

try_statement ==
    rule("try_statement", 0, "none",
         seq(<<S("try"), E,
               optional(seq(<<S("returns"), S("_parameter_list")>>)),
               S("block_statement"), S("try_statement_repeat1")>>))
    \cup repeat1("try_statement_repeat1", S("catch_clause"))

catch_clause ==
    rule("catch_clause", 0, "none",
         seq(<<S("catch"),
               optional(seq(<<optional(S("identifier")), S("_parameter_list")>>)),
               S("block_statement")>>))

return_statement ==
    rule("return_statement", 0, "none",
         seq(<<S("return"), optional(E), S(";")>>))

emit_statement ==
    rule("emit_statement", 0, "none",
         seq(<<S("emit"), E, S("_call_arguments"), S(";")>>))

(***************************************************************************)
(* Declarations                                                            *)
(***************************************************************************)
_declaration ==
    {"contract_declaration", "interface_declaration", "library_declaration",
     "struct_declaration", "enum_declaration", "function_definition"}

\* zero or more members
struct_declaration_repeat ==
    rule("struct_declaration", 0, "none",
         seq(<<S("struct"), S("identifier"), S("{"),
               optional(S("struct_declaration_repeat1")), S("}")>>))
    \cup repeat1("struct_declaration_repeat1", S("struct_member"))

struct_declaration ==
    rule("struct_declaration", 0, "none",
         seq(<<S("struct"), S("identifier"), S("{"),
               S("struct_declaration_repeat1"), S("}")>>))
    \cup repeat1("struct_declaration_repeat1", S("struct_member"))

struct_member ==
    rule("struct_member", 0, "none",
         seq(<<S("type_name"), S("identifier"), S(";")>>))

enum_declaration ==
    rule("enum_declaration", 0, "none",
         seq(<<S("enum"), S("identifier"), S("{"),
               commaSep(S("identifier"), "enum_declaration_repeat1"), S("}")>>))
    \cup commaSepAux(S("identifier"), "enum_declaration_repeat1")

_inheritance_specifier ==
    rule("_inheritance_specifier", 0, "none",
         seq(<<S("_user_defined_type"), optional(S("_call_arguments"))>>))

contract_declaration ==
    rule("contract_declaration", 0, "none",
         seq(<<optional(S("abstract")), S("contract"), S("identifier"),
               optional(S("class_heritage")), S("contract_body")>>))

interface_declaration ==
    rule("interface_declaration", 0, "none",
         seq(<<S("interface"), S("identifier"), optional(S("class_heritage")),
               S("contract_body")>>))

library_declaration ==
    rule("library_declaration", 0, "none",
         seq(<<S("library"), S("identifier"), S("contract_body")>>))

class_heritage ==
    rule("class_heritage", 0, "none",
         seq(<<S("is"),
               commaSep1(S("_inheritance_specifier"), "class_heritage_repeat1")>>))
    \cup commaSepAux(S("_inheritance_specifier"), "class_heritage_repeat1")

contract_body ==
    rule("contract_body", 0, "none",
         seq(<<S("{"), optional(S("contract_body_repeat1")), S("}")>>))
    \cup repeat1("contract_body_repeat1",
                 choice({S("function_definition"), S("modifier_definition"),
                         S("state_variable_declaration"),
                         S("struct_declaration"), S("enum_declaration"),
                         S("event_definition"), S("using_directive"),
                         S("constructor_definition"),
                         S("fallback_receive_definition")}))

event_definition ==
    rule("event_definition", 0, "none",
         seq(<<S("event"), S("identifier"), S("_event_parameter_list"),
               optional(S("anonymous")), S(";")>>))

_event_parameter_list ==
    rule("_event_parameter_list", 0, "none",
         seq(<<S("("),
               commaSep(seq(<<S("type_name"), optional(S("indexed")),
                              optional(S("identifier"))>>),
                        "_event_parameter_list_repeat1"),
               S(")")>>))
    \cup commaSepAux(seq(<<S("type_name"), optional(S("indexed")),
                           optional(S("identifier"))>>),
                     "_event_parameter_list_repeat1")

using_directive ==
    rule("using_directive", 0, "none",
         seq(<<S("using"), S("_user_defined_type"), S("for"),
               choice({S("*"), S("type_name")}), S(";")>>))

\* `constant`, `immutable` and `virtual` are rules of one keyword: named tokens
state_variable_declaration ==
    rule("state_variable_declaration", 0, "none",
         seq(<<S("type_name"),
               optional(S("state_variable_declaration_repeat1")),
               S("identifier"), optional(seq(<<S("="), E>>)), S(";")>>))
    \cup repeat1("state_variable_declaration_repeat1",
                 choice({S("visibility"), S("constant"),
                         S("override_specifier"), S("immutable")}))

visibility ==
    rule("visibility", 0, "none",
         choice({S("public"), S("internal"), S("private"), S("external")}))

state_mutability ==
    rule("state_mutability", 0, "none",
         choice({S("pure"), S("view"), S("payable")}))

override_specifier ==
    rule("override_specifier", 0, "none",
         seq(<<S("override"),
               optional(seq(<<S("("),
                              commaSep1(S("_user_defined_type"),
                                        "override_specifier_repeat1"),
                              S(")")>>))>>))
    \cup commaSepAux(S("_user_defined_type"), "override_specifier_repeat1")

modifier_definition ==
    rule("modifier_definition", 0, "none",
         seq(<<S("modifier"), S("identifier"), optional(S("_parameter_list")),
               optional(S("modifier_definition_repeat1")),
               choice({S(";"), S("function_body")})>>))
    \cup repeat1("modifier_definition_repeat1",
                 choice({S("virtual"), S("override_specifier")}))

constructor_definition ==
    rule("constructor_definition", 0, "none",
         seq(<<S("constructor"), S("_parameter_list"),
               optional(S("constructor_definition_repeat1")),
               S("function_body")>>))
    \cup repeat1("constructor_definition_repeat1",
                 choice({S("modifier_invocation"), S("payable"),
                         choice({S("internal"), S("public")})}))

fallback_receive_definition ==
    rule("fallback_receive_definition", 0, "none",
         seq(<<choice({seq(<<optional(S("function")),
                             choice({S("fallback"), S("receive")})>>),
                       S("function")}),
               S("("), S(")"),
               optional(S("fallback_receive_definition_repeat1")),
               choice({S(";"), S("function_body")})>>))
    \cup repeat1("fallback_receive_definition_repeat1",
                 choice({S("visibility"), S("modifier_invocation"),
                         S("state_mutability"), S("virtual"),
                         S("override_specifier")}))

function_definition ==
    rule("function_definition", 0, "none",
         seq(<<S("function"), S("identifier"), S("_parameter_list"),
               optional(S("function_definition_repeat1")),
               optional(seq(<<S("returns"), S("_parameter_list")>>)),
               choice({S(";"), S("function_body")})>>))
    \cup repeat1("function_definition_repeat1",
                 choice({S("modifier_invocation"), S("visibility"),
                         S("state_mutability"), S("virtual"),
                         S("override_specifier")}))

modifier_invocation ==
    rule("modifier_invocation", 0, "none",
         seq(<<S("identifier"), optional(S("_call_arguments"))>>))

function_body ==
    rule("function_body", 0, "none",
         seq(<<S("{"), optional(S("function_body_repeat1")), S("}")>>))
    \cup repeat1("function_body_repeat1", S("_statement"))

(***************************************************************************)
(* The grammar as a whole                                                  *)
(***************************************************************************)
Prods ==
    primary_expression \cup type_cast_expression \cup ternary_expression
    \cup new_expression \cup tuple_expression \cup inline_array_expression
    \cup binary_expression \cup unary_expression \cup update_expression
    \cup member_expression \cup array_access \cup slice_access
    \cup struct_expression \cup parenthesized_expression
    \cup assignment_expression \cup augmented_assignment_expression
    \cup call_expresion \cup _call_arguments \cup payable_conversion_expression
    \cup meta_type_expression \cup type_name \cup _array_type \cup _parameter
    \cup _parameter_list \cup _user_defined_type \cup _mapping
    \cup _int \cup _uint \cup _bytes \cup _fixed \cup _ufixed
    \cup _primitive_type \cup literal \cup number_literal \cup decimal_number
    \cup hex_number \cup number_unit \cup boolean_literal
    \cup block_statement \cup variable_declaration_statement
    \cup variable_declaration \cup variable_declaration_tuple
    \cup expression_statement \cup if_statement \cup for_statement
    \cup while_statement \cup do_while_statement \cup continue_statement
    \cup break_statement \cup try_statement \cup catch_clause
    \cup return_statement \cup emit_statement
    \cup struct_declaration \cup struct_member \cup enum_declaration
    \cup _function_type \cup _return_parameters \cup _nameless_parameter
    \cup _inheritance_specifier \cup contract_declaration
    \cup interface_declaration \cup library_declaration \cup class_heritage
    \cup contract_body \cup event_definition \cup _event_parameter_list
    \cup using_directive \cup state_variable_declaration \cup visibility
    \cup state_mutability \cup override_specifier \cup modifier_definition
    \cup constructor_definition \cup fallback_receive_definition
    \cup function_definition \cup modifier_invocation \cup function_body

\* the hidden rules that are a bare choice of symbols build no node
HiddenChoice ==
    [h \in {"_expression", "_lhs_expression", "_statement", "_declaration",
            "_storage_location", "_mapping_key"} |->
        CASE h = "_expression" -> _expression
          [] h = "_lhs_expression" -> _lhs_expression
          [] h = "_statement" -> _statement
          [] h = "_declaration" -> _declaration
          [] h = "_storage_location" -> _storage_location
          [] h = "_mapping_key" -> _mapping_key]

(***************************************************************************)
(* Symbols, nodes and the relations the parser construction needs          *)
(***************************************************************************)
RhsSymbols == UNION {{p.rhs[i] : i \in DOMAIN p.rhs} : p \in Prods}

Symbols ==
    RhsSymbols \cup {p.lhs : p \in Prods} \cup DOMAIN HiddenChoice
    \cup UNION {HiddenChoice[h] : h \in DOMAIN HiddenChoice}

Terminals == Symbols \ ({p.lhs : p \in Prods} \cup DOMAIN HiddenChoice)

\* the kinds a symbol stands for: itself, or the members of a hidden choice
RECURSIVE Subs(_)
Subs(s) ==
    IF s \in DOMAIN HiddenChoice
    THEN UNION {Subs(m) : m \in HiddenChoice[s]}
    ELSE {s}

SubsOf == [s \in Symbols |-> Subs(s)]

IsA(kind, s) == kind \in SubsOf[s]

\* the symbols a derivation from s can begin with
LeftStep(T) ==
    T \cup {p.rhs[1] : p \in {q \in Prods : q.lhs \in T}}
      \cup UNION {SubsOf[h] : h \in T}

RECURSIVE LeftClosure(_)
LeftClosure(T) ==
    LET U == LeftStep(T) IN IF U = T THEN T ELSE LeftClosure(U)

LeftCorner == [s \in Symbols |-> LeftClosure({s})]

\* a production with the dot after k >= 1 symbols and before its last one
Items ==
    UNION {{[lhs |-> p.lhs, pre |-> SubSeq(p.rhs, 1, k), next |-> p.rhs[k + 1],
             prec |-> p.prec] : k \in 1..(Len(p.rhs) - 1)} : p \in Prods}

ItemsEndingIn ==
    [k \in Symbols |-> {it \in Items : IsA(k, it.pre[Len(it.pre)])}]

ProdsEndingIn ==
    [k \in Symbols |-> {p \in Prods : IsA(k, p.rhs[Len(p.rhs)])}]

\* nodes: <<kind, text, children>>; the nodes of hidden rules are spliced
\* into their parent
Hidden ==
    {"_call_arguments", "_array_type", "_parameter", "_parameter_list",
     "_user_defined_type", "_mapping", "_int", "_uint", "_bytes", "_fixed",
     "_ufixed", "_primitive_type", "_hex_digit", "_function_type",
     "_return_parameters", "_nameless_parameter", "_inheritance_specifier",
     "_event_parameter_list"}
    \cup {p.lhs : p \in {q \in Prods : q.rhs[1] = q.lhs}}

\* the tables of the parser generated from the rules
Parser ==
    [terminals |-> Terminals, subsOf |-> SubsOf, leftCorner |-> LeftCorner,
     itemsEndingIn |-> ItemsEndingIn, prodsEndingIn |-> ProdsEndingIn,
     hidden |-> Hidden]

Kind(n) == n[1]

Text(n) == n[2]

Children(n) == n[3]

Token(kind, text) == <<kind, text, <<>>>>

RECURSIVE Splice(_, _)
Splice(nodes, T) ==
    IF nodes = <<>> THEN <<>>
    ELSE (IF Kind(Head(nodes)) \in T.hidden /\ Children(Head(nodes)) # <<>>
          THEN Children(Head(nodes)) ELSE <<Head(nodes)>>)
         \o Splice(Tail(nodes), T)

Top(st) == st[Len(st)]

Below(st, k) == SubSeq(st, 1, Len(st) - k)

MatchSuffix(st, rhs, T) ==
    /\ Len(rhs) <= Len(st)
    /\ \A i \in DOMAIN rhs : Kind(st[Len(st) - Len(rhs) + i]) \in T.subsOf[rhs[i]]

Reduced(st, p, T) ==
    Append(Below(st, Len(p.rhs)),
           <<p.lhs, "", Splice(SubSeq(st, Len(st) - Len(p.rhs) + 1, Len(st)), T)>>)

(***************************************************************************)
(* The LR(1) parser of the productions                                     *)
(***************************************************************************)
\* symbol A can begin at the top of stack st when the goal is g
RECURSIVE Expected(_, _, _, _)
Expected(st, A, g, T) ==
    IF st = <<>> THEN A \in T.leftCorner[g]
    ELSE \E it \in T.itemsEndingIn[Kind(Top(st))] :
            /\ A \in T.leftCorner[it.next]
            /\ MatchSuffix(st, it.pre, T)
            /\ Expected(Below(st, Len(it.pre)), it.lhs, g, T)

\* the items, valid for the stack, whose next symbol can begin with token t
ShiftItems(st, t, g, T) ==
    IF st = <<>> THEN {}
    ELSE {it \in T.itemsEndingIn[Kind(Top(st))] :
            /\ t \in T.leftCorner[it.next]
            /\ MatchSuffix(st, it.pre, T)
            /\ Expected(Below(st, Len(it.pre)), it.lhs, g, T)}

CanShift(st, t, g, T) ==
    IF st = <<>> THEN t \in T.leftCorner[g] ELSE ShiftItems(st, t, g, T) # {}

Reducible(st, g, T) ==
    IF st = <<>> THEN {}
    ELSE {p \in T.prodsEndingIn[Kind(Top(st))] :
            /\ MatchSuffix(st, p.rhs, T)
            /\ Expected(Below(st, Len(p.rhs)), p.lhs, g, T)}

EndOfInput == "end"

Complete(st, g, T) == Len(st) = 1 /\ Kind(st[1]) \in T.subsOf[g]

\* token t is a lookahead of the stack: after some reductions it is shifted
RECURSIVE Viable(_, _, _, _)
Viable(st, t, g, T) ==
    \/ t = EndOfInput /\ Complete(st, g, T)
    \/ t # EndOfInput /\ CanShift(st, t, g, T)
    \/ \E p \in Reducible(st, g, T) : Viable(Reduced(st, p, T), t, g, T)

Max(T) == CHOOSE x \in T : \A y \in T : y <= x

Min(T) == CHOOSE x \in T : \A y \in T : x <= y

\* The parse actions of a stack on lookahead t, after the conflicts are
\* resolved: of the reductions only those of the highest precedence stay; a
\* shift is dropped when the reductions have a higher precedence than every
\* item that shifts, or the same one and are left-associative; the reductions
\* are dropped when their precedence is lower, or the same and they are
\* right-associative.
Actions(st, t, g, T) ==
    LET cands == {p \in Reducible(st, g, T) : Viable(Reduced(st, p, T), t, g, T)}
        shift == t # EndOfInput /\ CanShift(st, t, g, T)
    IN  IF cands = {} THEN [shift |-> shift, reduce |-> {}]
        ELSE
          LET top == Max({p.prec : p \in cands})
              reds == {p \in cands : p.prec = top}
              precs == {it.prec : it \in ShiftItems(st, t, g, T)}
          IN  IF ~shift THEN [shift |-> FALSE, reduce |-> reds]
              ELSE IF top < Min(precs) THEN [shift |-> TRUE, reduce |-> {}]
              ELSE IF top > Max(precs) THEN [shift |-> FALSE, reduce |-> reds]
              ELSE IF precs = {top} /\ \A p \in reds : p.assoc = "left"
                   THEN [shift |-> FALSE, reduce |-> reds]
              ELSE IF precs = {top} /\ \A p \in reds : p.assoc = "right"
                   THEN [shift |-> TRUE, reduce |-> {}]
              ELSE [shift |-> TRUE, reduce |-> reds]

\* the stacks after token tk (a node) with kind t is consumed
RECURSIVE Advance(_, _, _, _)
Advance(st, tk, g, T) ==
    LET a == Actions(st, Kind(tk), g, T)
    IN  (IF a.shift THEN {Append(st, tk)} ELSE {})
        \cup UNION {Advance(Reduced(st, p, T), tk, g, T) : p \in a.reduce}

\* the trees of the stack at the end of the input
RECURSIVE Finish(_, _, _)
Finish(st, g, T) ==
    (IF Complete(st, g, T) THEN {st[1]} ELSE {})
    \cup UNION {Finish(Reduced(st, p, T), g, T)
                : p \in Actions(st, EndOfInput, g, T).reduce}

(***************************************************************************)
(* The lexer.  The input is the source text cut into pieces: a piece of    *)
(* several characters is one whole lexeme, pieces of one character are     *)
(* the characters of the text, and " " is white space.  In a parse state   *)
(* the lexer returns the longest lexeme of a token that state can take, a  *)
(* string of the grammar before a regular expression of the same length;   *)
(* so a word is a keyword where the keyword can stand and an identifier    *)
(* elsewhere.                                                              *)
(***************************************************************************)
DigitChars == {"0", "1", "2", "3", "4", "5", "6", "7", "8", "9"}

HexChars ==
    DigitChars \cup {"a", "b", "c", "d", "e", "f", "A", "B", "C", "D", "E", "F"}

LetterChars ==
    {"a", "b", "c", "d", "e", "f", "g", "h", "i", "j", "k", "l", "m", "n", "o",
     "p", "q", "r", "s", "t", "u", "v", "w", "x", "y", "z", "A", "B", "C", "D",
     "E", "F", "G", "H", "I", "J", "K", "L", "M", "N", "O", "P", "Q", "R", "S",
     "T", "U", "V", "W", "X", "Y", "Z"}

IdStartChars == LetterChars \cup {"$", "_"}

IdChars == IdStartChars \cup DigitChars

Punctuation ==
    {"(", ")", "[", "]", "{", "}", ";", ",", ".", "?", ":", "=", "=>", "++",
     "--", "!", "~", "_", "0x"}
    \cup {BinaryOperators[i][1] : i \in DOMAIN BinaryOperators}
    \cup AugmentedOperators

\* the tokens given by a regex, in the order the grammar defines them
RegexOrder ==
    <<"/fixedMxN/", "/ufixedMxN/", "identifier", "/[0-9]+(.[0-9]+)?/",
      "/[eE](-)?d+/", "_hex_digit">>

RegexTokens == {RegexOrder[i] : i \in DOMAIN RegexOrder}

Earliest(T) ==
    {RegexOrder[Min({i \in DOMAIN RegexOrder : RegexOrder[i] \in T})]}

Piece(text, i) == IF i <= Len(text) THEN text[i] ELSE ""

IsChar(c) == Len(c) = 1

RECURSIVE RunEnd(_, _, _)
RunEnd(text, i, chars) ==
    IF Piece(text, i) \in chars THEN RunEnd(text, i + 1, chars) ELSE i

SkipExtras(text, i) == RunEnd(text, i, {" "})

RECURSIVE Join(_, _, _)
Join(text, i, j) == IF i >= j THEN "" ELSE text[i] \o Join(text, i + 1, j)

\* where the lexeme of token t that starts at piece i ends (i: no lexeme)
MatchEnd(text, i, t) ==
    LET c == Piece(text, i) IN
    CASE t = "identifier" ->
           IF IsChar(c)
           THEN (IF c \in IdStartChars THEN RunEnd(text, i + 1, IdChars) ELSE i)
           ELSE (IF c # "" /\ c \notin Punctuation
                 THEN RunEnd(text, i + 1, IdChars) ELSE i)
      [] t = "_hex_digit" ->
           IF c \in HexChars /\ Piece(text, i + 1) \in HexChars
           THEN i + 2 ELSE i
      [] t = "/[0-9]+(.[0-9]+)?/" ->
           LET j == RunEnd(text, i, DigitChars)
               k == RunEnd(text, j + 1, DigitChars)
           IN  IF j > i /\ IsChar(Piece(text, j)) /\ k > j + 1 THEN k ELSE j
      [] t = "/[eE](-)?d+/" ->
           LET j == IF Piece(text, i + 1) = "-" THEN i + 2 ELSE i + 1
               k == RunEnd(text, j, {"d"})
           IN  IF c \in {"e", "E"} /\ k > j THEN k ELSE i
      [] t \in {"/fixedMxN/", "/ufixedMxN/"} ->
           LET j == RunEnd(text, i + 1, DigitChars)
               k == RunEnd(text, j + 1, DigitChars)
           IN  IF /\ c = (IF t = "/fixedMxN/" THEN "fixed" ELSE "ufixed")
                  /\ j > i + 1 /\ Piece(text, j) = "x" /\ k > j + 1
               THEN k ELSE i
      [] t = "0x" -> IF c = "0" /\ Piece(text, i + 1) = "x" THEN i + 2 ELSE i
      [] OTHER -> IF c = t THEN i + 1 ELSE i

\* the tokens [node, end] the lexer returns at piece i for the stack st
Lex(text, i, st, g, T) ==
    LET found == {t \in {u \in T.terminals : MatchEnd(text, i, u) > i}
                    : Viable(st, t, g, T)}
        longest == {t \in found : \A u \in found :
                                    MatchEnd(text, i, u) <= MatchEnd(text, i, t)}
        strings == longest \ RegexTokens
    IN  {[node |-> Token(t, Join(text, i, MatchEnd(text, i, t))),
          end |-> MatchEnd(text, i, t)]
         : t \in (IF strings # {} THEN strings
                  ELSE IF longest # {} THEN Earliest(longest) ELSE {})}

(***************************************************************************)
(* The inputs: bounded families of source texts, each with the rule it is  *)
(* parsed as.  Identifiers are named in the order they appear.             *)
(***************************************************************************)
MaxOperators == 3

MaxTernaries == 2

Operand(i) == <<"a", "b", "c", "d", "e", "g", "h", "k", "m", "n">>[i]

Operators == {BinaryOperators[i][1] : i \in DOMAIN BinaryOperators}

\* one operator of each tier
TierOperators == {"||", "&&", "==", "+", "*", "**"}

\* a op1 b op2 c ...
RECURSIVE BinaryText(_)
BinaryText(ops) ==
    IF Len(ops) = 0 THEN <<Operand(1)>>
    ELSE BinaryText(SubSeq(ops, 1, Len(ops) - 1))
         \o <<ops[Len(ops)], Operand(Len(ops) + 1)>>

BinaryTexts ==
    {BinaryText(ops) \o <<";">> : ops \in [1..2 -> Operators]}
    \cup UNION {{BinaryText(ops) \o <<";">> : ops \in [1..n -> TierOperators]}
                : n \in 1..MaxOperators}

\* the texts with n ternaries, operands written "id"
RECURSIVE TernaryShapes(_)
TernaryShapes(n) ==
    IF n = 0 THEN {<<"id">>}
    ELSE UNION {UNION {{x \o <<"?">> \o y \o <<":">> \o z
                        : x \in TernaryShapes(i), y \in TernaryShapes(j),
                          z \in TernaryShapes(n - 1 - i - j)}
                       : j \in 0..(n - 1 - i)}
                : i \in 0..(n - 1)}

RECURSIVE Named(_, _)
Named(text, k) ==
    IF text = <<>> THEN <<>>
    ELSE IF Head(text) = "id" THEN <<Operand(k)>> \o Named(Tail(text), k + 1)
    ELSE <<Head(text)>> \o Named(Tail(text), k)

TernaryTexts ==
    UNION {{Named(t, 1) \o <<";">> : t \in TernaryShapes(n)}
           : n \in 1..MaxTernaries}

MaxPostfix == 3

MaxCatches == 2

MaxTuple == 2

MaxIfs == 3

MaxMembers == 2

MaxHexGroups == 2

MaxSpecifiers == 1

RECURSIVE Flat(_)
Flat(texts) == IF texts = <<>> THEN <<>> ELSE Head(texts) \o Flat(Tail(texts))

RECURSIVE Repeat(_, _)
Repeat(text, n) == IF n = 0 THEN <<>> ELSE text \o Repeat(text, n - 1)

\* the texts, comma separated
RECURSIVE Commas(_)
Commas(texts) ==
    IF Len(texts) = 0 THEN <<>>
    ELSE IF Len(texts) = 1 THEN texts[1]
    ELSE texts[1] \o <<",">> \o Commas(Tail(texts))

\* a base followed by n of: member access, call with and without an
\* argument, index
PostfixSteps ==
    {<<".", "id">>, <<"(", "id", ")">>, <<"(", ")">>, <<"[", "id", "]">>}

RECURSIVE PostfixShapes(_)
PostfixShapes(n) ==
    IF n = 0 THEN {<<"id">>}
    ELSE {x \o y : x \in PostfixShapes(n - 1), y \in PostfixSteps}

PostfixTexts ==
    UNION {{Named(t, 1) \o <<";">> : t \in PostfixShapes(n)}
           : n \in 1..MaxPostfix}

\* try f() [returns (uint x)] {} followed by catch clauses of four forms
CatchForm ==
    [bare |-> <<"catch", "{", "}">>,
     named |-> <<"catch", " ", "Error", "(", "string", " ", "memory", " ",
                 "reason", ")", "{", "}">>,
     unnamed |-> <<"catch", "(", "uint", " ", "x", ")", "{", "}">>,
     nameOnly |-> <<"catch", " ", "Error", "{", "}">>]

CatchForms == DOMAIN CatchForm

CatchSeqs == UNION {[1..n -> CatchForms] : n \in 0..MaxCatches}

TryText(returns, forms) ==
    <<"try", " ", "f", "(", ")">>
    \o (IF returns THEN <<"returns", "(", "uint", " ", "x", ")">> ELSE <<>>)
    \o <<"{", "}">>
    \o Flat([i \in 1..Len(forms) |-> CatchForm[forms[i]]])

TryTexts == {TryText(r, fs) : r \in BOOLEAN, fs \in CatchSeqs}

\* a variable declaration statement: one declaration or a tuple of n
\* declarations; with or without an initializer; alone or as the init
\* clause of a for statement
Declared(kind, n) ==
    IF kind = "single" THEN <<"uint", " ", "a">>
    ELSE <<"(">> \o Commas([i \in 1..n |-> <<"uint", " ", Operand(i)>>])
                 \o <<")">>

VarText(kind, n, init, inFor) ==
    (IF inFor THEN <<"for", "(">> ELSE <<>>)
    \o Declared(kind, n)
    \o (IF init THEN <<"=", "z">> ELSE <<>>)
    \o <<";">>
    \o (IF inFor THEN <<";", ")", "{", "}">> ELSE <<>>)

VarKinds == {<<"single", 1>>} \cup ({"tuple"} \X (0..MaxTuple))

VarTexts ==
    {VarText(k[1], k[2], init, inFor)
     : k \in VarKinds, init \in BOOLEAN, inFor \in BOOLEAN}

\* ifs nested d deep, followed by e else branches
IfText(d, e) ==
    Named(Repeat(<<"if", "(", "id", ")">>, d) \o <<"id", ";">>
          \o Repeat(<<"else", " ", "id", ";">>, e), 1)

IfTexts == {IfText(d, e) : d \in 1..MaxIfs, e \in 0..MaxIfs}

\* a struct of n members, an enum of n values
StructText(n) ==
    <<"struct", " ", "S", "{">>
    \o Flat([i \in 1..n |-> <<"uint", " ", Operand(i), ";">>]) \o <<"}">>

EnumText(n, trailing) ==
    <<"enum", " ", "E", "{">> \o Commas([i \in 1..n |-> <<Operand(i)>>])
    \o (IF trailing THEN <<",">> ELSE <<>>) \o <<"}">>

\* the head of a function-like declaration, up to its parameter list
FunctionHead ==
    [function |-> <<"function", " ", "f", "(", ")">>,
     modifier |-> <<"modifier", " ", "m", "(", ")">>,
     modifierBare |-> <<"modifier", " ", "m">>,
     constructor |-> <<"constructor", "(", ")">>,
     fallback |-> <<"fallback", "(", ")">>,
     receive |-> <<"receive", "(", ")">>,
     functionFallback |-> <<"function", " ", "fallback", "(", ")">>,
     unnamed |-> <<"function", "(", ")">>]

FunctionKinds == DOMAIN FunctionHead

SpecifierWords == {"public", "virtual", "payable"}

SpecifierSeqs == UNION {[1..n -> SpecifierWords] : n \in 0..MaxSpecifiers}

FunctionEnd ==
    [semicolon |-> <<";">>, body |-> <<"{", "}">>, none |-> <<>>]

FunctionEnds == DOMAIN FunctionEnd

FunctionText(inContract, kind, specifiers, ending) ==
    (IF inContract THEN <<"contract", " ", "C", "{">> ELSE <<>>)
    \o FunctionHead[kind]
    \o Flat([i \in DOMAIN specifiers |-> <<" ", specifiers[i]>>])
    \o FunctionEnd[ending]
    \o (IF inContract THEN <<"}">> ELSE <<>>)

FunctionTexts ==
    {FunctionText(c, k, sp, e) : c \in BOOLEAN, k \in FunctionKinds,
                                 sp \in SpecifierSeqs, e \in FunctionEnds}

DeclarationTexts ==
    {StructText(n) : n \in 0..MaxMembers}
    \cup {EnumText(n, t) : n \in 0..MaxMembers, t \in BOOLEAN}
    \cup FunctionTexts

\* a number, character by character, and a unit
HexGroup == {<<"1">>, <<"f">>, <<"a", "b">>}

HexGroupSeqs == UNION {[1..n -> HexGroup] : n \in 1..MaxHexGroups}

RECURSIVE Dashed(_)
Dashed(groups) ==
    IF Len(groups) = 1 THEN groups[1]
    ELSE groups[1] \o <<"_">> \o Dashed(Tail(groups))

Mantissas ==
    {<<"1">>, <<"1", "0">>} \cup {<<"0", "x">> \o Dashed(gs) : gs \in HexGroupSeqs}

NumberText(mantissa, unit) ==
    mantissa \o (IF unit = "" THEN <<>> ELSE <<" ", unit>>) \o <<";">>

NumberTexts == {NumberText(m, u) : m \in Mantissas, u \in {"", "ether", "gwei"}}

\* P(a) and I(a), at the start of a statement, as a right operand and as
\* the value of a return
PrimitiveTypes ==
    {<<w>> : w \in {"address", "bool", "string", "var", "fixed", "ufixed"}
                   \cup IntWords \cup UintWords \cup BytesWords}
    \cup {<<"address", " ", "payable">>,
          <<"fixed", "1", "2", "8", "x", "1", "8">>,
          <<"ufixed", "8", "x", "2">>}

OrdinaryIdentifiers == {<<"f">>, <<"memory">>, <<"x", "1">>, <<"uint7">>}

Positions == {<<>>, <<"b", "+">>, <<"return", " ">>}

ApplyText(position, callee) == position \o callee \o <<"(", "a", ")", ";">>

ApplyTexts ==
    {ApplyText(p, c) : p \in Positions, c \in PrimitiveTypes \cup OrdinaryIdentifiers}

MaxGroup == 2

MaxParens == 1

\* a parenthesized group of n elements, with or without a trailing comma
Group(n, trailing) ==
    <<"(">> \o Commas([i \in 1..n |-> <<Operand(i)>>])
            \o (IF trailing THEN <<",">> ELSE <<>>) \o <<")">>

\* where a group stands: alone, as an operand, inside parentheses, and as
\* the left side of an assignment and of an augmented assignment
GroupContexts == {"alone", "operand", "nested", "assigned", "augmented"}

GroupText(context, n, trailing) ==
    CASE context = "alone" -> Group(n, trailing) \o <<";">>
      [] context = "operand" -> <<"y", "+">> \o Group(n, trailing) \o <<";">>
      [] context = "nested" -> <<"(">> \o Group(n, trailing) \o <<")", ";">>
      [] context = "assigned" -> Group(n, trailing) \o <<"=", "z", ";">>
      [] context = "augmented" -> Group(n, trailing) \o <<"+=", "z", ";">>

GroupTexts ==
    {GroupText(c, n, t) : c \in GroupContexts, n \in 0..MaxGroup, t \in BOOLEAN}

\* an assignment: a left side in k pairs of parentheses, an operator and z
LeftSide ==
    [identifier |-> <<"a">>,
     member |-> <<"a", ".", "b">>,
     index |-> <<"a", "[", "b", "]">>,
     tuple |-> <<"(", "a", ",", "b", ")">>,
     sum |-> <<"a", "+", "b">>,
     number |-> <<"1">>,
     call |-> <<"f", "(", "a", ")">>,
     negation |-> <<"!", "a">>]

LeftSides == DOMAIN LeftSide

AssignmentOperators == {"="} \cup AugmentedOperators

AssignText(left, k, op) ==
    Repeat(<<"(">>, k) \o LeftSide[left] \o Repeat(<<")">>, k)
    \o <<op, "z", ";">>

AssignTexts ==
    {AssignText(l, k, op)
     : l \in LeftSides, k \in 0..MaxParens, op \in AssignmentOperators}

StatementTexts ==
    BinaryTexts \cup TernaryTexts \cup PostfixTexts \cup TryTexts \cup VarTexts
    \cup IfTexts \cup NumberTexts \cup ApplyTexts \cup GroupTexts
    \cup AssignTexts

Inputs ==
    {[goal |-> "_statement", text |-> t] : t \in StatementTexts}
    \cup {[goal |-> "_declaration", text |-> t] : t \in DeclarationTexts}

(***************************************************************************)
(* The parse of one input                                                  *)
(***************************************************************************)
AtEnd(h) == SkipExtras(input, h.at) > Len(input)

Init ==
    /\ \E i \in Inputs : input = i.text /\ goal = i.goal
    /\ heads = {[st |-> <<>>, at |-> 1]}
    /\ result = {}
    /\ pc = "parsing"

\* every stack takes its next token: the reductions the token calls for,
\* then the shift
Step ==
    /\ pc = "parsing"
    /\ ~ \A h \in heads : AtEnd(h)
    /\ LET next == UNION {IF AtEnd(h) THEN {h}
                          ELSE UNION {{[st |-> s, at |-> tk.end]
                                       : s \in Advance(h.st, tk.node, goal, Parser)}
                                      : tk \in Lex(input, SkipExtras(input, h.at),
                                                   h.st, goal, Parser)}
                          : h \in heads}
       IN  /\ heads' = next
           /\ pc' = IF next = {} THEN "rejected" ELSE "parsing"
    /\ UNCHANGED <<input, goal, result>>

\* the end of the input: the last reductions, and the trees of the goal
End ==
    /\ pc = "parsing"
    /\ \A h \in heads : AtEnd(h)
    /\ result' = UNION {Finish(h.st, goal, Parser) : h \in heads}
    /\ pc' = IF result' = {} THEN "rejected" ELSE "accepted"
    /\ heads' = {}
    /\ UNCHANGED <<input, goal>>

Next == Step \/ End

Spec == Init /\ [][Next]_vars

(***************************************************************************)
(* Trees, as the properties below name them.                               *)
(***************************************************************************)
Tk(k) == Token(k, k)

Id(name) == Token("identifier", name)

Node(kind, children) == <<kind, "", children>>

PE(name) == Node("primary_expression", <<Id(name)>>)

Bin(l, op, r) == Node("binary_expression", <<l, Tk(op), r>>)

Ternary(c, x, y) == Node("ternary_expression", <<c, Tk("?"), x, Tk(":"), y>>)

ExprStmt(e) == Node("expression_statement", <<e, Tk(";")>>)

RECURSIVE Nodes(_)
Nodes(n) == {n} \cup UNION {Nodes(Children(n)[i]) : i \in DOMAIN Children(n)}

Done == pc # "parsing"

Tier(op) ==
    BinaryOperators[CHOOSE i \in DOMAIN BinaryOperators
                        : BinaryOperators[i][1] = op][2]

IsBinary(n) == Kind(n) = "binary_expression"

OperatorOf(n) == Kind(Children(n)[2])

(***************************************************************************)
(* C1: for operators op1, op2 of different tiers, `a op1 b op2 c` has      *)
(* exactly one tree, and in it the operator of the higher tier is grouped  *)
(* first, whichever comes first in the text; in longer chains no binary    *)
(* expression has an operand that is a binary expression of a lower tier.  *)
(***************************************************************************)
C1_HigherTierGroupsFirst ==
    (Done /\ input \in BinaryTexts) =>
        /\ pc = "accepted"
        /\ (Len(input) = 6 /\ Tier(input[2]) > Tier(input[4])) =>
               result = {ExprStmt(Bin(Bin(PE("a"), input[2], PE("b")),
                                      input[4], PE("c")))}
        /\ (Len(input) = 6 /\ Tier(input[2]) < Tier(input[4])) =>
               result = {ExprStmt(Bin(PE("a"), input[2],
                                      Bin(PE("b"), input[4], PE("c"))))}
        /\ \A t \in result : \A n \in Nodes(t) :
               IsBinary(n) =>
                   \A i \in {1, 3} :
                       IsBinary(Children(n)[i]) =>
                           Tier(OperatorOf(Children(n)[i])) >= Tier(OperatorOf(n))

C1_Witness ==
    /\ input = <<"a", "+", "b", "*", "c", ";">>
    /\ result = {ExprStmt(Bin(PE("a"), "+", Bin(PE("b"), "*", PE("c"))))}

(***************************************************************************)
(* C2: `a ** b ** c` parses as `a ** (b ** c)`: the right operand of the   *)
(* outer exponentiation is the binary expression `b ** c`.                 *)
(***************************************************************************)
C2_ExponentRightAssociative ==
    (Done /\ input = <<"a", "**", "b", "**", "c", ";">>) =>
        result = {ExprStmt(Bin(PE("a"), "**", Bin(PE("b"), "**", PE("c"))))}

\* what the grammar does with it
C2_ExponentGroupsLeft ==
    /\ input = <<"a", "**", "b", "**", "c", ";">>
    /\ result = {ExprStmt(Bin(Bin(PE("a"), "**", PE("b")), "**", PE("c")))}

(***************************************************************************)
(* C3: `a ? b : c ? d : e` parses as one ternary with condition a, true    *)
(* branch b and the ternary `c ? d : e` as its false branch.               *)
(***************************************************************************)
C3_TernaryRightLeaning ==
    (Done /\ input = <<"a", "?", "b", ":", "c", "?", "d", ":", "e", ";">>) =>
        result = {ExprStmt(Ternary(PE("a"), PE("b"),
                                   Ternary(PE("c"), PE("d"), PE("e"))))}

\* what the grammar does with it
C3_TernaryLeansLeft ==
    /\ input = <<"a", "?", "b", ":", "c", "?", "d", ":", "e", ";">>
    /\ result = {ExprStmt(Ternary(Ternary(PE("a"), PE("b"), PE("c")),
                                  PE("d"), PE("e")))}

RECURSIVE Leaves(_)
Leaves(n) ==
    IF Children(n) = <<>> THEN <<Text(n)>>
    ELSE Flat([i \in DOMAIN Children(n) |-> Leaves(Children(n)[i])])

NoSpace(text) == SelectSeq(text, LAMBDA c : c # " ")

ChildrenOfKind(n, kind) == SelectSeq(Children(n), LAMBDA c : Kind(c) = kind)

(***************************************************************************)
(* C4: `a.b(c)[d]` is accepted, as an array access whose base is a call    *)
(* whose callee is the member access `a.b`.                                *)
(***************************************************************************)
C4_PostfixChain ==
    (Done /\ input = <<"a", ".", "b", "(", "c", ")", "[", "d", "]", ";">>) =>
        /\ pc = "accepted"
        /\ \A t \in result : \E n \in Nodes(t) :
               /\ Kind(n) = "array_access"
               /\ Kind(Children(n)[1]) = "call_expresion"
               /\ \E m \in Nodes(Children(Children(n)[1])[1]) :
                      /\ Kind(m) = "member_expression"
                      /\ Leaves(m) = <<"a", ".", "b">>

\* what the grammar does with it
C4_MemberCallRejected ==
    /\ input = <<"a", ".", "b", "(", "c", ")", "[", "d", "]", ";">>
    /\ pc = "rejected"

(***************************************************************************)
(* C5: `try f() [returns (..)] {}` followed by catch clauses is accepted   *)
(* exactly when there is at least one catch clause and every clause is     *)
(* `catch {}`, `catch (..) {}` or `catch Name(..) {}` (a name comes only   *)
(* with a parameter list); the tree has one catch_clause per catch, in     *)
(* source order.                                                           *)
(***************************************************************************)
C5_TryNeedsCatch ==
    (Done /\ input \in TryTexts) =>
        \A r \in BOOLEAN, fs \in CatchSeqs :
            input = TryText(r, fs) =>
                /\ pc = "accepted" <=>
                       /\ Len(fs) >= 1
                       /\ \A i \in 1..Len(fs) : fs[i] # "nameOnly"
                /\ \A t \in result :
                       /\ Kind(t) = "try_statement"
                       /\ LET cs == ChildrenOfKind(t, "catch_clause")
                          IN  /\ Len(cs) = Len(fs)
                              /\ \A i \in 1..Len(fs) :
                                     Leaves(cs[i]) = NoSpace(CatchForm[fs[i]])

C5_Witness ==
    /\ input = TryText(TRUE, <<"named", "bare">>)
    /\ pc = "accepted"
    /\ \A t \in result : Len(ChildrenOfKind(t, "catch_clause")) = 2

\* C5 as stated: a name and a parameter list are each optional on their own
C5_CatchPartsIndependent ==
    (Done /\ input \in TryTexts) =>
        \A r \in BOOLEAN, fs \in CatchSeqs :
            input = TryText(r, fs) => (pc = "accepted" <=> Len(fs) >= 1)

(***************************************************************************)
(* C6: `1 ether` and `0x1_f gwei` are both accepted, as a number literal   *)
(* that carries a unit.                                                    *)
(***************************************************************************)
C6_NumberWithUnit ==
    (Done /\ input \in {NumberText(<<"1">>, "ether"),
                        NumberText(<<"0", "x", "1", "_", "f">>, "gwei")}) =>
        /\ pc = "accepted"
        /\ \A t \in result : \E n \in Nodes(t) :
               /\ Kind(n) = "number_literal"
               /\ Len(Children(n)) = 2
               /\ Kind(Children(n)[2]) = "number_unit"

\* what the grammar does with the hex literal
C6_HexSeparatorRejected ==
    /\ input = NumberText(<<"0", "x", "1", "_", "f">>, "gwei")
    /\ pc = "rejected"

(***************************************************************************)
(* C7: in every accepted tree a variable_declaration_tuple is followed by  *)
(* `= expression ;` in a variable_declaration_statement; a tuple of        *)
(* declarations is accepted exactly with an initializer, a single          *)
(* declaration with and without one, alone and as the init clause of a for *)
(* statement.                                                              *)
(***************************************************************************)
C7_TupleNeedsInitializer ==
    /\ \A t \in result : \A n \in Nodes(t) : \A i \in DOMAIN Children(n) :
           Kind(Children(n)[i]) = "variable_declaration_tuple" =>
               /\ Kind(n) = "variable_declaration_statement"
               /\ Len(Children(n)) = i + 3
               /\ Kind(Children(n)[i + 1]) = "="
               /\ Kind(Children(n)[i + 3]) = ";"
    /\ (Done /\ input \in VarTexts) =>
           \A k \in VarKinds, init \in BOOLEAN, inFor \in BOOLEAN :
               (input = VarText(k[1], k[2], init, inFor) /\ k[2] >= 1) =>
                   /\ pc = "accepted" <=> (k[1] = "single" \/ init)
                   /\ \A t \in result : \E n \in Nodes(t) :
                          /\ Kind(n) = "variable_declaration_statement"
                          /\ Kind(Children(n)[1]) =
                                 (IF k[1] = "single" THEN "variable_declaration"
                                  ELSE "variable_declaration_tuple")

C7_Witness ==
    /\ input = VarText("tuple", 2, TRUE, TRUE)
    /\ pc = "accepted"
    /\ \A t \in result : \E n \in Nodes(t) :
           /\ Kind(n) = "variable_declaration_statement"
           /\ Kind(Children(n)[1]) = "variable_declaration_tuple"
           /\ Kind(Children(n)[2]) = "="

(***************************************************************************)
(* C8: a struct is accepted exactly with one or more members, and          *)
(* `struct S {}` is rejected; an enum is accepted with zero or more        *)
(* values, and `enum E {}` is accepted.                                    *)
(***************************************************************************)
C8_StructNonEmptyEnumAny ==
    /\ \A t \in result : \A n \in Nodes(t) :
           Kind(n) = "struct_declaration" =>
               Len(ChildrenOfKind(n, "struct_member")) >= 1
    /\ (Done /\ input \in DeclarationTexts) =>
           \A n \in 0..MaxMembers :
               /\ input = StructText(n) =>
                      /\ pc = "accepted" <=> n >= 1
                      /\ \A t \in result :
                             Len(ChildrenOfKind(t, "struct_member")) = n
               /\ \A trailing \in BOOLEAN :
                      input = EnumText(n, trailing) =>
                          /\ pc = "accepted" <=> (n >= 1 \/ ~trailing)
                          /\ \A t \in result :
                                 /\ Kind(t) = "enum_declaration"
                                 /\ Len(ChildrenOfKind(t, "identifier")) = n + 1

C8_Witness ==
    /\ input = EnumText(0, FALSE)
    /\ result = {Node("enum_declaration",
                      <<Tk("enum"), Id("E"), Tk("{"), Tk("}")>>)}

\* C8 as stated: both bodies are non-empty
C8_BothNonEmpty ==
    /\ (Done /\ input \in {StructText(0), EnumText(0, FALSE)}) => pc = "rejected"
    /\ \A t \in result : \A n \in Nodes(t) :
           /\ Kind(n) = "struct_declaration" =>
                  Len(ChildrenOfKind(n, "struct_member")) >= 1
           /\ Kind(n) = "enum_declaration" =>
                  Len(ChildrenOfKind(n, "identifier")) >= 2

(***************************************************************************)
(* C9: in ifs nested two or more deep and followed by one else, the else   *)
(* belongs to the innermost if and the outermost if has no else.           *)
(***************************************************************************)
HasElse(n) == Kind(n) = "if_statement" /\ Len(Children(n)) = 7

RECURSIVE Innermost(_, _)
Innermost(n, d) == IF d = 1 THEN n ELSE Innermost(Children(n)[5], d - 1)

C9_ElseBindsNearest ==
    \A d \in 2..MaxIfs :
        (Done /\ input = IfText(d, 1)) =>
            /\ pc = "accepted"
            /\ \A t \in result : ~HasElse(t) /\ HasElse(Innermost(t, d))

\* what the grammar does with it
C9_ElseBindsOutermost ==
    /\ input = IfText(2, 1)
    /\ pc = "accepted"
    /\ \A t \in result : HasElse(t) /\ ~HasElse(Children(t)[5])

(***************************************************************************)
(* C10: for every primitive type P, `P(a)` in expression position has      *)
(* exactly one tree, with a type_cast_expression of P and no call; for an  *)
(* ordinary identifier I, `I(a)` has exactly one tree, with a call of I    *)
(* and no type cast.                                                       *)
(***************************************************************************)
Applications(t) ==
    {n \in Nodes(t) : Kind(n) \in {"type_cast_expression", "call_expresion",
                                   "payable_conversion_expression"}}

Lexemes(callee) ==
    IF " " \in {callee[i] : i \in DOMAIN callee} THEN NoSpace(callee)
    ELSE <<Join(callee, 1, Len(callee) + 1)>>

C10_CastNeverCall ==
    (Done /\ input \in ApplyTexts) =>
        \A p \in Positions, c \in PrimitiveTypes \cup OrdinaryIdentifiers :
            input = ApplyText(p, c) =>
                /\ pc = "accepted"
                /\ Cardinality(result) = 1
                /\ \A t \in result : \A n \in Applications(t) :
                       /\ Leaves(n) = Lexemes(c) \o <<"(", "a", ")">>
                       /\ Kind(n) = (IF c \in PrimitiveTypes
                                     THEN "type_cast_expression"
                                     ELSE "call_expresion")
                       /\ Kind(Children(n)[1]) = "identifier"
                              <=> c \in OrdinaryIdentifiers
                /\ \A t \in result : Applications(t) # {}

C10_Witness ==
    /\ input = ApplyText(<<"b", "+">>, <<"uint256">>)
    /\ result = {ExprStmt(Bin(PE("b"), "+",
                              Node("type_cast_expression",
                                   <<Tk("uint256"), Tk("("), PE("a"),
                                     Tk(")")>>)))}

(***************************************************************************)
(* C11: a parenthesized group of one expression without a comma is, in     *)
(* every context where it is accepted, a parenthesized_expression and      *)
(* never a tuple_expression; a group of two expressions, or of one         *)
(* expression followed by a comma, is a tuple_expression.                  *)
(***************************************************************************)
Groups(t, text) ==
    {n \in Nodes(t) : /\ Kind(n) \in {"parenthesized_expression",
                                      "tuple_expression"}
                      /\ Leaves(n) = text}

GroupKindIs(kind, text) ==
    /\ pc = "accepted"
    /\ \A t \in result :
           /\ Groups(t, text) # {}
           /\ \A n \in Groups(t, text) : Kind(n) = kind

C11_OneExpressionNeverTuple ==
    (Done /\ input \in GroupTexts) =>
        \A c \in GroupContexts, n \in 1..MaxGroup, trailing \in BOOLEAN :
            input = GroupText(c, n, trailing) =>
                /\ (n = 1 /\ ~trailing) =>
                       GroupKindIs("parenthesized_expression",
                                   Group(n, trailing))
                /\ (n = 1 /\ trailing) \/ (n = 2 /\ ~trailing) =>
                       GroupKindIs("tuple_expression", Group(n, trailing))

\* what the grammar does with `(a) += z;`
C11_TupleOfOneBeforeAugmented ==
    /\ input = GroupText("augmented", 1, FALSE)
    /\ GroupKindIs("tuple_expression", <<"(", "a", ")">>)

(***************************************************************************)
(* C12: in every accepted text the left side of each assignment and        *)
(* augmented assignment is a member access, a tuple, an array access, an   *)
(* identifier, or one of those in parentheses; a text whose left side is   *)
(* another expression, such as `(a + b) = c` or `1 = c`, is rejected; the  *)
(* four forms, bare or in parentheses, are accepted with either kind of    *)
(* operator.                                                               *)
(***************************************************************************)
IsAssignment(n) ==
    Kind(n) \in {"assignment_expression", "augmented_assignment_expression"}

RECURSIVE Assignable(_)
Assignable(n) ==
    \/ Kind(n) \in {"member_expression", "tuple_expression", "array_access",
                    "identifier"}
    \/ /\ Kind(n) = "parenthesized_expression"
       /\ LET inner == Children(n)[2]
          IN  /\ Kind(inner) = "primary_expression"
              /\ Assignable(Children(inner)[1])

AssignableSides == {"identifier", "member", "index", "tuple"}

C12_LeftSideRestricted ==
    (Done /\ input \in AssignTexts) =>
        /\ \A t \in result : \A n \in Nodes(t) :
               IsAssignment(n) => Assignable(Children(n)[1])
        /\ \A l \in LeftSides, k \in 0..MaxParens, op \in AssignmentOperators :
               input = AssignText(l, k, op) =>
                   /\ l \in AssignableSides => pc = "accepted"
                   /\ (l \notin AssignableSides
                           /\ (k >= 1 \/ l \in {"number", "call"})) =>
                          pc = "rejected"

\* what the grammar does with `(a + b) = z;`
C12_SumInParenthesesAssigned ==
    /\ input = AssignText("sum", 1, "=")
    /\ pc = "accepted"
    /\ \A t \in result : \E n \in Nodes(t) :
           /\ Kind(n) = "assignment_expression"
           /\ Kind(Children(n)[1]) = "parenthesized_expression"
           /\ Leaves(Children(n)[1]) = <<"(", "a", "+", "b", ")">>

(***************************************************************************)
(* C13: inside a contract body each function-like declaration (function,   *)
(* modifier, constructor, fallback/receive) is accepted with a body block  *)
(* and with a bare semicolon in its place, and the tree holds the          *)
(* definition node of its kind over the whole declaration; a function is   *)
(* accepted in both forms at the top level too.                            *)
(***************************************************************************)
DefinitionOf ==
    [function |-> "function_definition",
     modifier |-> "modifier_definition",
     modifierBare |-> "modifier_definition",
     constructor |-> "constructor_definition",
     fallback |-> "fallback_receive_definition",
     receive |-> "fallback_receive_definition",
     functionFallback |-> "fallback_receive_definition",
     unnamed |-> "fallback_receive_definition"]

Defined(k, e) ==
    /\ pc = "accepted"
    /\ \A t \in result : \E n \in Nodes(t) :
           /\ Kind(n) = DefinitionOf[k]
           /\ Leaves(n) = NoSpace(FunctionHead[k] \o FunctionEnd[e])

C13_BodyOrSemicolon ==
    (Done /\ input \in FunctionTexts) =>
        \A k \in FunctionKinds, e \in {"semicolon", "body"} :
            /\ input = FunctionText(TRUE, k, <<>>, e) => Defined(k, e)
            /\ input = FunctionText(FALSE, "function", <<>>, e) =>
                   Defined("function", e)

\* what the grammar does with `contract C { constructor(); }`
C13_ConstructorNeedsBody ==
    /\ input = FunctionText(TRUE, "constructor", <<>>, "semicolon")
    /\ pc = "rejected"

(***************************************************************************)
(* C14: in `a op1 b op2 c` two operators of one group, where the shifts    *)
(* `<<` `>>` `>>>` are grouped with `*` `/` `%`, `&` with `&&`, and `^`    *)
(* `|` with `||`, associate to the left; a shift after `+` or `-` is       *)
(* grouped first (`a + b << c` is `a + (b << c)`), and a comparison after  *)
(* `&`, `^` or `|` is grouped first (`a & b == c` is `a & (b == c)`).      *)
(***************************************************************************)
ShiftOperators == {"<<", ">>", ">>>"}

OperatorGroups ==
    {{"*", "/", "%"} \cup ShiftOperators, {"&&", "&"}, {"||", "^", "|"}}

AdditiveOperators == {"+", "-"}

BitwiseOperators == {"&", "^", "|"}

ComparisonOperators == {"<", "<=", "==", "!=", "!==", ">=", ">"}

GroupsLeft ==
    result = {ExprStmt(Bin(Bin(PE("a"), input[2], PE("b")), input[4], PE("c")))}

GroupsRight ==
    result = {ExprStmt(Bin(PE("a"), input[2], Bin(PE("b"), input[4], PE("c"))))}

C14_ShiftAndBitwiseTiers ==
    (Done /\ input \in BinaryTexts /\ Len(input) = 6) =>
        /\ (\E g \in OperatorGroups : input[2] \in g /\ input[4] \in g) =>
               GroupsLeft
        /\ (input[2] \in AdditiveOperators /\ input[4] \in ShiftOperators) =>
               GroupsRight
        /\ (input[2] \in ShiftOperators /\ input[4] \in AdditiveOperators) =>
               GroupsLeft
        /\ (input[2] \in BitwiseOperators /\ input[4] \in ComparisonOperators) =>
               GroupsRight
        /\ (input[2] \in ComparisonOperators /\ input[4] \in BitwiseOperators) =>
               GroupsLeft

C14_Witness ==
    /\ input = <<"a", "&", "b", "==", "c", ";">>
    /\ result = {ExprStmt(Bin(PE("a"), "&", Bin(PE("b"), "==", PE("c"))))}

====
